---- MODULE Spec2Model ----
(***************************************************************************)
(* Model of the OAuth2 token lifecycle (oauth2connector.py) and of the     *)
(* Aircall paginated fetch (aircall_oauth_connector.py).                   *)
(*                                                                         *)
(*  SpecToken : build_authorization_url / retrieve_tokens /                *)
(*              get_access_token on one secrets keeper, with a clock.      *)
(*  Spec      : one _retrieve_data call: get_access_token, the session,    *)
(*              the recursive fetch_page traversals, the join and the      *)
(*              assembly of the result.                                    *)
(***************************************************************************)
EXTENDS Integers, Sequences, FiniteSets, TLC

VARIABLES store, now, nonce, last,
          phase, entry, dataset, limit, session, bearer, trav, gather_exc, result,
          conn

fetchVars == <<phase, entry, dataset, limit, session, bearer, trav, gather_exc, result>>
\* the state of an Aircall_oauthConnector and of its OAuth2Connector
aircallVars == <<store, now, nonce, last,
                 phase, entry, dataset, limit, session, bearer, trav, gather_exc, result>>
vars == <<store, now, nonce, last,
          phase, entry, dataset, limit, session, bearer, trav, gather_exc, result,
          conn>>

(***************************************************************************)
(* Bounds of the model.                                                    *)
(***************************************************************************)
\* the clock runs over 0..MaxTime
MaxTime == 2
\* number of authorization nonces build_authorization_url may hand out
MaxNonce == 2
\* seconds after which a token issued by the token endpoint expires
TokenLifetime == 1
\* largest positive limit of a data source
MaxLimit == 2
\* page requests one fetch batch may send (over all its traversals)
MaxReq == 4
\* page requests of a fetch_page called on its own
MaxPageReq == 9
\* with blocks one AbstractConnector is used in
MaxUses == 2
\* calls of query in the body of one with block
MaxQueries == 2

(***************************************************************************)
(* An AbstractConnector used as a context manager. conn holds the with     *)
(* block in progress: where it is, what has been called in it, and in log  *)
(* the calls made on the connector over all its blocks.                    *)
(***************************************************************************)
NoConn ==
    [pc |-> "outside", uses |-> 0, connects |-> 0, disconnects |-> 0,
     queries |-> 0, body_ran |-> FALSE, connect_failed |-> FALSE,
     body_exc |-> "none", raised |-> "none", log |-> <<>>]

(***************************************************************************)
(* The secrets keeper: a map from key to the saved dict.                   *)
(* A saved dict is nothing (load gives None), {'state': n} or a token      *)
(* {'access_token', 'expires_at'?, 'refresh_token'?}.                      *)
(***************************************************************************)
Name == "aircall"
Keys == {"aircall", "other"}
AccessTokens == {"", "tokA", "tokB"}

NoValue ==
    [kind |-> "none", state |-> 0, access_token |-> "",
     has_expires_at |-> FALSE, expires_at |-> 0, has_refresh_token |-> FALSE]

StateValue(n) ==
    [kind |-> "state", state |-> n, access_token |-> "",
     has_expires_at |-> FALSE, expires_at |-> 0, has_refresh_token |-> FALSE]

Token(a, he, e, hr) ==
    [kind |-> "token", state |-> 0, access_token |-> a,
     has_expires_at |-> he, expires_at |-> IF he THEN e ELSE 0,
     has_refresh_token |-> hr]

\* SecretsKeeper.save(key, value)
save(st, key, value) == [st EXCEPT ![key] = value]

\* SecretsKeeper.load(key)
load(st, key) == st[key]

(***************************************************************************)
(* The token endpoint (OAuth2Session.fetch_token / refresh_token): it      *)
(* answers with a token or the call raises.                                *)
(***************************************************************************)
IssuedTokens(t) ==
    {Token(a, he, t + TokenLifetime, hr) :
        a \in AccessTokens, he \in BOOLEAN, hr \in BOOLEAN}

NoEp == [ok |-> FALSE, token |-> NoValue]

EndpointOutcomes(t) ==
    {NoEp} \cup {[ok |-> TRUE, token |-> tk] : tk \in IssuedTokens(t)}

\* the outcome of one operation of the connector
Outcome(st, ret, err, calls) ==
    [store |-> st, ret |-> ret, err |-> err, token_calls |-> calls]

\* an expiry test that lets a token live one tick longer
IsExpiredStrictlyLater(token, t) == token.has_expires_at /\ token.expires_at + 1 < t

\* an expiry test that refreshes every token that has an expiry
IsExpiredWhenDated(token, t) == token.has_expires_at

\* an expiry test that counts the tick of expiry as expired
IsExpiredWithLeeway(token, t) == token.has_expires_at /\ token.expires_at <= t

\* token['expires_at'] < time(), guarded by 'expires_at' in token
IsExpired(token, t) == token.has_expires_at /\ token.expires_at < t

\* a get_access_token that refreshes whatever the stored dict holds
MissingRefreshIgnored(token) == FALSE

\* the refresh branch is taken only with a refresh token in the stored dict
MissingRefresh(token) == ~token.has_refresh_token

\* return self.secrets_keeper.load(self._connector_name)['access_token']
ReturnAccessToken(st, calls) ==
    IF load(st, Name).kind # "token"
    THEN Outcome(st, "", "KeyError", calls)
    ELSE Outcome(st, load(st, Name).access_token, "none", calls)

\* a get_access_token that saves the refreshed token under another key
RefreshKeyOther == "other"

\* the key get_access_token saves the refreshed token under
RefreshKey == Name

\* OAuth2Connector.get_access_token, with ep the answer of the token endpoint
GetAccessToken(st, t, ep) ==
    LET token == load(st, Name) IN
    IF token.kind = "none"
    THEN Outcome(st, "", "TypeError", 0)
    ELSE IF IsExpired(token, t)
    THEN IF MissingRefresh(token)
         THEN Outcome(st, "", "NoOAuth2RefreshToken", 0)
         ELSE IF ~ep.ok
         THEN Outcome(st, "", "OAuthError", 1)
         ELSE ReturnAccessToken(save(st, RefreshKey, ep.token), 1)
    ELSE ReturnAccessToken(st, 0)

\* a retrieve_tokens that never compares the two states
StateMatchesUnchecked(saved, n) == TRUE

\* assert load(name)['state'] == url_params['state'][0]
StateMatches(saved, n) == saved.state = n

\* a retrieve_tokens that leaves the saved state in place
ExchangeKeyOther == "other"

\* the key retrieve_tokens saves the token under (line 71): the token
\* replaces the saved state
ExchangeKey == Name

\* OAuth2Connector.retrieve_tokens, with n the state of the authorization response
RetrieveTokens(st, n, ep) ==
    LET saved == load(st, Name) IN
    IF saved.kind = "none"
    THEN Outcome(st, "", "TypeError", 0)
    ELSE IF saved.kind # "state"
    THEN Outcome(st, "", "KeyError", 0)
    ELSE IF ~StateMatches(saved, n)
    THEN Outcome(st, "", "AssertionError", 0)
    ELSE IF ~ep.ok
    THEN Outcome(st, "", "OAuthError", 1)
    ELSE Outcome(save(st, ExchangeKey, ep.token), "", "none", 1)

\* OAuth2Connector.build_authorization_url, with n the state authlib generated
BuildAuthorizationUrl(st, n) ==
    Outcome(save(st, Name, StateValue(n)), "uri", "none", 0)

\* what is remembered of the last operation on the connector
Last(op, pre, at, arg, ep, o) ==
    [op |-> op, pre |-> pre, at |-> at, arg |-> arg,
     ep |-> IF o.token_calls > 0 THEN ep ELSE NoEp,
     ret |-> o.ret, err |-> o.err, token_calls |-> o.token_calls]

NoOutcome(st) == Outcome(st, "", "none", 0)

build_authorization_url ==
    /\ nonce < MaxNonce
    /\ LET o == BuildAuthorizationUrl(store, nonce + 1) IN
        /\ store' = o.store
        /\ last' = Last("build_authorization_url", store, now, nonce + 1, NoEp, o)
    /\ nonce' = nonce + 1
    /\ UNCHANGED now

retrieve_tokens ==
    \E n \in 1..MaxNonce, ep \in EndpointOutcomes(now) :
        LET o == RetrieveTokens(store, n, ep) IN
        /\ store' = o.store
        /\ last' = Last("retrieve_tokens", store, now, n, ep, o)
        /\ UNCHANGED <<now, nonce>>

get_access_token ==
    \E ep \in EndpointOutcomes(now) :
        LET o == GetAccessToken(store, now, ep) IN
        /\ store' = o.store
        /\ last' = Last("get_access_token", store, now, 0, ep, o)
        /\ UNCHANGED <<now, nonce>>

\* a get_status that takes any string for a token
TokenMissingNever(a) == FALSE

\* if not access_token (line 259)
TokenMissing(a) == a = ""

\* Aircall_oauthConnector.get_status, with ep the answer of the token
\* endpoint: the ConnectorStatus it returns is "status=True" or the error
\* of a status=False
GetStatus(st, t, ep) ==
    LET o == GetAccessToken(st, t, ep) IN
    IF o.err # "none"
    THEN Outcome(o.store, "Credentials are missing", "none", o.token_calls)
    ELSE IF TokenMissing(o.ret)
    THEN Outcome(o.store, "Credentials are missing", "none", o.token_calls)
    ELSE Outcome(o.store, "status=True", "none", o.token_calls)

get_status ==
    \E ep \in EndpointOutcomes(now) :
        LET o == GetStatus(store, now, ep) IN
        /\ store' = o.store
        /\ last' = Last("get_status", store, now, 0, ep, o)
        /\ UNCHANGED <<now, nonce>>

\* time() advances
Tick ==
    /\ now < MaxTime
    /\ now' = now + 1
    /\ UNCHANGED <<store, nonce, last>>

(***************************************************************************)
(* The Aircall fetch: pages, frames of the recursive fetch_page, and the   *)
(* traversals of one batch.                                                *)
(***************************************************************************)
Datasets == {"calls", "tags", "users"}
Limits == -1..MaxLimit
TravIds == {"teams", "variable"}

max_num_of_retries == 3

\* A page envelope: error is 0 (no 'error' key) or the id of the error
\* payload; meta is "absent" (no 'meta' key), "null" (next_page_link null) or
\* "link"; current_page is meta.current_page, the page the server answers
\* for; records says whether the dataset-named array is in the envelope and
\* n how many objects it holds.
NoData ==
    [error |-> 0, meta |-> "absent", current_page |-> 0, records |-> FALSE, n |-> 0]

\* the envelopes the server may answer with to the k-th request of a
\* traversal, sent for page p
Envelopes(p, k) ==
    {[error |-> 0, meta |-> m, current_page |-> p, records |-> TRUE, n |-> 1] :
        m \in {"null", "link"}}
    \cup
    {[error |-> k, meta |-> m, current_page |-> p, records |-> FALSE, n |-> 0] :
        m \in {"absent", "link"}}

\* the same, with pages whose array may be empty or missing
CountedEnvelopes(p, k) ==
    {[error |-> 0, meta |-> m, current_page |-> p, records |-> TRUE, n |-> c] :
        m \in {"null", "link"}, c \in {0, 1}}
    \cup
    {[error |-> 0, meta |-> m, current_page |-> p, records |-> FALSE, n |-> 0] :
        m \in {"null", "link"}}
    \cup
    {[error |-> k, meta |-> m, current_page |-> p, records |-> FALSE, n |-> 0] :
        m \in {"absent", "link"}}

NoExc == [kind |-> "none", payload |-> 0]
Exc(kind, payload) == [kind |-> kind, payload |-> payload]

\* a call of fetch_page about to send its request
Frame(pass, page, dc) ==
    [current_pass |-> pass, new_page |-> page, delay_counter |-> dc,
     data |-> NoData, pc |-> "fetch"]

NoTrav ==
    [status |-> "unused", stack |-> <<>>, data_list |-> <<>>, max_pass |-> 0,
     sent |-> <<>>, resp |-> <<>>, slept |-> 0, err |-> NoExc]

\* fetch_page(dataset, [], session, limit, pass) as called by _get_data / _get_tags
StartTrav(pass) ==
    [NoTrav EXCEPT !.status = "running", !.stack = <<Frame(pass, 1, 0)>>,
                   !.max_pass = pass]

Top(stack) == stack[Len(stack)]
Pop(stack) == SubSeq(stack, 1, Len(stack) - 1)
Max(a, b) == IF a > b THEN a ELSE b

\* next_page_link (lines 72-76): None unless meta carries a link
NextPageLink(data) == data.meta = "link"

\* current_pass after lines 78-79
PassAfter(pass, lim) == IF lim > -1 THEN pass + 1 ELSE pass

\* whether lines 81 / 87 go on to the next page
MorePages(data, pass, lim) ==
    IF lim > -1
    THEN NextPageLink(data) /\ pass < lim
    ELSE NextPageLink(data)

\* data_list.append(data) of line 70
AppendPage(data_list, data) == Append(data_list, data)

\* a next-page call that hands the caller's retry counter on
NextPageFrameKeepingCount(f, pass) ==
    Frame(pass, f.data.current_page + 1, f.delay_counter)

\* fetch_page(dataset, data_list, session, limit, current_pass, next_page) of
\* lines 82-85 and 88-91: delay_counter takes its default
NextPageFrame(f, pass) == Frame(pass, f.data.current_page + 1, 0)

\* a retry that moves on to the following page
RetryFrameDrifting(f) == Frame(f.current_pass, f.new_page + 1, f.delay_counter + 1)

\* fetch_page(dataset, data_list, session, limit, current_pass, new_page,
\* delay_counter) of lines 60-64
RetryFrame(f) == Frame(f.current_pass, f.new_page, f.delay_counter + 1)

RECURSIVE AfterFetch(_, _)
RECURSIVE ReturnTo(_, _)

\* Lines 69-93 of the top frame, entered when its page has no error or when
\* its retry (line 62) has returned. s is [stack, data_list, max_pass].
AfterFetch(s, lim) ==
    LET f == Top(s.stack)
        appended == AppendPage(s.data_list, f.data)
        pass == PassAfter(f.current_pass, lim)
        g == [f EXCEPT !.delay_counter = 0, !.current_pass = pass, !.pc = "next"]
        mp == Max(s.max_pass, pass)
    IN  IF MorePages(f.data, pass, lim)
        THEN [stack |-> Append(Append(Pop(s.stack), g), NextPageFrame(f, pass)),
              data_list |-> appended, max_pass |-> mp]
        ELSE ReturnTo([stack |-> Pop(s.stack), data_list |-> appended,
                       max_pass |-> mp], lim)

\* return data_list (line 93) to the frame awaiting this call
ReturnTo(s, lim) ==
    IF s.stack = <<>>
    THEN s
    ELSE IF Top(s.stack).pc = "retry"
    THEN AfterFetch(s, lim)
    ELSE ReturnTo([s EXCEPT !.stack = Pop(s.stack)], lim)

\* a retry test that allows one retry more
CanRetryOneMore(f) == f.delay_counter <= max_num_of_retries

\* if delay_counter < max_num_of_retries (line 59)
CanRetry(f) == f.delay_counter < max_num_of_retries

(***************************************************************************)
(* The result of _retrieve_data.                                           *)
(***************************************************************************)
NoResult ==
    [kind |-> "none", template |-> "none", teams |-> <<>>, rows |-> <<>>, err |-> NoExc]

\* build_empty_df(dataset), then rows appended (pd.concat / build_df)
Df(d, teams, rows) ==
    [kind |-> "df", template |-> d, teams |-> teams, rows |-> rows, err |-> NoExc]

\* an except clause that hands back the empty frame
FailureAsEmptyFrame(exc) ==
    [kind |-> "df", template |-> "none", teams |-> <<>>, rows |-> <<>>, err |-> NoExc]

\* an exception that leaves _retrieve_data (no try / except in lines 158-249)
Failure(exc) ==
    [kind |-> "error", template |-> "none", teams |-> <<>>, rows |-> <<>>, err |-> exc]

\* data['teams'] / data[dataset] / data['tags'] raises KeyError on an
\* envelope without the array
HasKeyError(pages) == \E i \in 1..Len(pages) : ~pages[i].records

\* the objects of the pages, each named by its page
RECURSIVE Rows(_)
Rows(pages) ==
    IF pages = <<>> THEN <<>>
    ELSE IF Head(pages).n > 0
    THEN <<Head(pages).current_page>> \o Rows(Tail(pages))
    ELSE Rows(Tail(pages))

\* the keys of DICTIONARY_OF_FORMATTERS
RegisteredFormatters == Datasets \cup {"teams"}

\* What formatting one page of dataset d raises: data[d] on an envelope
\* without the array, DICTIONARY_OF_FORMATTERS.get(d, 'users')(obj) on the
\* first object when d has no formatter (the string 'users' is called).
PageProblem(d, e) ==
    IF ~e.records THEN "KeyError"
    ELSE IF e.n > 0 /\ d \notin RegisteredFormatters THEN "TypeError"
    ELSE "none"

\* the exception of the first page that raises, "none" if none does
RECURSIVE FirstProblem(_, _)
FirstProblem(d, pages) ==
    IF pages = <<>> THEN "none"
    ELSE IF PageProblem(d, Head(pages)) # "none" THEN PageProblem(d, Head(pages))
    ELSE FirstProblem(d, Tail(pages))

\* _get_tags lines 210-213 and _retrieve_data lines 240-241
TagsResult(d, pages) ==
    IF HasKeyError(pages) THEN Failure(Exc("KeyError", 0))
    ELSE Df(d, <<>>, Rows(pages))

\* _get_data lines 182-193 and _retrieve_data lines 247-249
DataResult(d, team_data, variable_data) ==
    IF HasKeyError(team_data)
    THEN Failure(Exc("KeyError", 0))
    ELSE IF FirstProblem(d, variable_data) # "none"
    THEN Failure(Exc(FirstProblem(d, variable_data), 0))
    ELSE Df(d, Rows(team_data), Rows(variable_data))

\* a _retrieve_data that fetches whatever the limit
FetchWantedAlways(lim) == TRUE

\* if limit != 0 (lines 238 and 245)
FetchWanted(lim) == lim # 0

\* current_pass given to fetch_page by _get_tags (line 208) and _get_data (172, 179)
FirstPass(e) == IF e = "tags" THEN 1 ELSE 0

EntryOf(d) == IF d = "tags" THEN "tags" ELSE "data"

Running(e) ==
    [t \in TravIds |->
        IF e = "data" \/ t = "variable" THEN StartTrav(FirstPass(e)) ELSE NoTrav]

Idle == [t \in TravIds |-> NoTrav]

\* the secrets the keeper may hold when a fetch starts
FetchStores ==
    { NoValue, StateValue(1),
      Token("tokA", TRUE, 2, TRUE), Token("tokA", TRUE, 0, TRUE),
      Token("tokA", TRUE, 0, FALSE), Token("", FALSE, 0, FALSE) }

\* the answers of the token endpoint to a refresh made by a fetch
FetchEndpointOutcomes(t) ==
    { NoEp, [ok |-> TRUE, token |-> Token("tokB", TRUE, t + TokenLifetime, TRUE)],
      [ok |-> TRUE, token |-> Token("", TRUE, t + TokenLifetime, TRUE)] }

Init ==
    /\ \E v \in FetchStores : store = [k \in Keys |-> IF k = Name THEN v ELSE NoValue]
    /\ now = 1
    /\ nonce = 1
    /\ last = Last("none", store, 0, 0, NoEp, NoOutcome(store))
    /\ phase = "idle"
    /\ entry = "none"
    /\ dataset = "none"
    /\ limit = 0
    /\ session = "none"
    /\ bearer = ""
    /\ trav = Idle
    /\ gather_exc = NoExc
    /\ conn = NoConn
    /\ result = NoResult

\* headers built from the token read before the refresh
SessionBearerBeforeRefresh(st, o) == load(st, Name).access_token

\* headers = {'Authorization': f'Bearer {access_token}'} (lines 160-163, 197-200)
SessionBearer(st, o) == o.ret

\* _get_data / _get_tags up to the first request: get_access_token, the
\* session and the calls of fetch_page; e is the entry point
StartFetch(e, ep) ==
    LET o == GetAccessToken(store, now, ep) IN
    /\ store' = o.store
    /\ last' = Last("get_access_token", store, now, 0, ep, o)
    /\ IF o.err # "none"
       THEN /\ phase' = "raised"
            /\ result' = Failure(Exc(o.err, 0))
            /\ UNCHANGED <<session, bearer, trav>>
       ELSE IF o.ret = ""
       THEN /\ phase' = "raised"
            /\ result' = Failure(Exc("NoCredentialsError", 0))
            /\ UNCHANGED <<session, bearer, trav>>
       ELSE /\ phase' = "running"
            /\ result' = result
            /\ session' = "open"
            /\ bearer' = SessionBearer(store, o)
            /\ trav' = Running(e)

\* _retrieve_data up to the first request: the limit check, then the fetch
RetrieveData ==
    /\ phase = "idle"
    /\ \E d \in Datasets, lim \in Limits, ep \in FetchEndpointOutcomes(now) :
        /\ dataset' = d
        /\ limit' = lim
        /\ entry' = EntryOf(d)
        /\ IF ~FetchWanted(lim)
           THEN /\ phase' = "returned"
                /\ result' = Df(d, <<>>, <<>>)
                /\ UNCHANGED <<store, last, session, bearer, trav>>
           ELSE StartFetch(EntryOf(d), ep)
    /\ UNCHANGED <<now, nonce, gather_exc, conn>>

TotalSent == Len(trav["teams"].sent) + Len(trav["variable"].sent)

\* two calls of fetch_page handed one and the same list
UpdatedSharingList(t, tr) ==
    [u \in TravIds |->
        IF u = t THEN tr
        ELSE IF trav[u].status = "running"
        THEN [trav[u] EXCEPT !.data_list = tr.data_list]
        ELSE trav[u]]

\* a retry counter kept outside the call, one for both traversals
UpdatedSharingRetries(t, tr) ==
    [u \in TravIds |->
        IF u = t THEN tr
        ELSE IF trav[u].status = "running" /\ tr.stack # <<>>
        THEN [trav[u] EXCEPT !.stack[Len(trav[u].stack)].delay_counter =
                                    Top(tr.stack).delay_counter]
        ELSE trav[u]]

\* The traversals after a step of t: data_list, current_pass, new_page and
\* delay_counter are parameters of the call (lines 33-41), and each call made
\* by the collector gets a list of its own (lines 171-172, 205)
Updated(t, tr) == [trav EXCEPT ![t] = tr]

\* What follows a step of traversal t that left it in state tr: _get_tags
\* goes on at once (lines 210-213, the session closes, _retrieve_data
\* returns or raises); a task of _get_data's gather only records its first
\* exception for the join.
Settle(t, tr) ==
    /\ trav' = Updated(t, tr)
    /\ IF entry = "tags" /\ tr.status = "done"
       THEN /\ session' = "closed"
            /\ result' = TagsResult(dataset, tr.data_list)
            /\ phase' = IF result'.kind = "df" THEN "returned" ELSE "raised"
            /\ UNCHANGED gather_exc
       ELSE IF entry = "tags" /\ tr.status = "raised"
       THEN /\ session' = "closed"
            /\ result' = Failure(tr.err)
            /\ phase' = "raised"
            /\ UNCHANGED gather_exc
       ELSE /\ gather_exc' = IF tr.status = "raised" /\ gather_exc = NoExc
                             THEN tr.err ELSE gather_exc
            /\ UNCHANGED <<session, result, phase>>
    /\ UNCHANGED <<store, now, nonce, last, entry, dataset, limit, bearer, conn>>

Raised(tr, exc) == [tr EXCEPT !.status = "raised", !.stack = <<>>, !.err = exc]

Resumed(tr, s) ==
    [tr EXCEPT !.stack = s.stack, !.data_list = s.data_list, !.max_pass = s.max_pass,
               !.status = IF s.stack = <<>> THEN "done" ELSE "running"]

\* fetch (lines 96-99): the request of the top frame goes out, cap being
\* the number of requests explored
SendRequestWithin(t, cap) ==
    /\ phase = "running"
    /\ trav[t].status = "running"
    /\ Top(trav[t].stack).pc = "fetch"
    /\ TotalSent < cap
    /\ LET tr == trav[t]
           f == Top(tr.stack)
       IN Settle(t, [tr EXCEPT !.stack[Len(tr.stack)].pc = "wait",
                               !.sent = Append(@, [page |-> f.new_page,
                                                   pass |-> f.current_pass,
                                                   bearer |-> bearer])])

SendRequest(t) == SendRequestWithin(t, MaxReq)

\* the JSON body env arrives: lines 48-58 on an error envelope, lines 48-93
\* otherwise
Receive(t, env) ==
    /\ phase = "running"
    /\ trav[t].status = "running"
    /\ Top(trav[t].stack).pc = "wait"
    /\  LET tr == [trav[t] EXCEPT !.resp = Append(@, env),
                                  !.stack[Len(trav[t].stack)].data = env]
        IN  IF env.error # 0
            THEN Settle(t, [tr EXCEPT !.stack[Len(tr.stack)].pc = "sleep"])
            ELSE Settle(t, Resumed(tr, AfterFetch(
                    [stack |-> tr.stack, data_list |-> tr.data_list,
                     max_pass |-> tr.max_pass], limit)))

Response(t) ==
    /\ trav[t].status = "running"
    /\ \E env \in Envelopes(Top(trav[t].stack).new_page, Len(trav[t].resp) + 1) :
        Receive(t, env)

\* a fetch_page that catches the exception of fetch and asks again
TransportFailureRetried(tr) == [tr EXCEPT !.stack[Len(tr.stack)].pc = "fetch"]

\* the exception of await fetch(endpoint, session) (line 48) is caught
\* nowhere in fetch_page: it leaves every call of the recursion
TransportFailure(tr) == Raised(tr, Exc("TransportError", 0))

\* the request raises instead of returning a body
TransportFail(t) ==
    /\ phase = "running"
    /\ trav[t].status = "running"
    /\ Top(trav[t].stack).pc = "wait"
    /\ Settle(t, TransportFailure(trav[t]))

\* asyncio.sleep(delay_timer) is over: lines 59-67
Backoff(t) ==
    /\ phase = "running"
    /\ trav[t].status = "running"
    /\ Top(trav[t].stack).pc = "sleep"
    /\ LET tr == trav[t]
           f == Top(tr.stack)
       IN IF CanRetry(f)
          THEN Settle(t, [tr EXCEPT
                    !.slept = @ + 1,
                    !.stack = Append(
                        Append(Pop(tr.stack),
                               [f EXCEPT !.delay_counter = f.delay_counter + 1,
                                         !.pc = "retry"]),
                        RetryFrame(f))])
          ELSE Settle(t, Raised([tr EXCEPT !.slept = @ + 1],
                                Exc("Exception", f.data.error)))

\* asyncio.gather has both lists: lines 182-193, the session closes,
\* _retrieve_data builds the frame
JoinReturn ==
    /\ phase = "running"
    /\ entry = "data"
    /\ \A t \in TravIds : trav[t].status = "done"
    /\ session' = "closed"
    /\ result' = DataResult(dataset, trav["teams"].data_list, trav["variable"].data_list)
    /\ phase' = IF result'.kind = "df" THEN "returned" ELSE "raised"
    /\ UNCHANGED <<store, now, nonce, last, entry, dataset, limit, bearer, trav,
                   gather_exc, conn>>

\* asyncio.gather raises the first exception of its tasks: the session
\* closes and _retrieve_data raises
JoinRaise ==
    /\ phase = "running"
    /\ entry = "data"
    /\ gather_exc # NoExc
    /\ session' = "closed"
    /\ result' = Failure(gather_exc)
    /\ phase' = "raised"
    /\ UNCHANGED <<store, now, nonce, last, entry, dataset, limit, bearer, trav,
                   gather_exc, conn>>

Next ==
    \/ RetrieveData
    \/ \E t \in TravIds : SendRequest(t)
    \/ \E t \in TravIds : Response(t)
    \/ \E t \in TravIds : TransportFail(t)
    \/ \E t \in TravIds : Backoff(t)
    \/ JoinReturn
    \/ JoinRaise

Spec == Init /\ [][Next]_vars

\* A direct call of run_fetches(dataset, limit) or of
\* run_fetches_for_tags(dataset, limit): the dataset is any string the caller
\* passes, the keeper holds a token that has not expired, and the arrays of
\* the pages may be empty or missing.
DispatchDatasets == {"users", "contacts"}

DispatchLimits == {-1, 2}

InitDispatch ==
    /\ store = [k \in Keys |->
                    IF k = Name THEN Token("tokA", TRUE, 2, TRUE) ELSE NoValue]
    /\ now = 1
    /\ nonce = 1
    /\ last = Last("none", store, 0, 0, NoEp, NoOutcome(store))
    /\ phase = "idle"
    /\ entry = "none"
    /\ dataset = "none"
    /\ limit = 0
    /\ session = "none"
    /\ bearer = ""
    /\ trav = Idle
    /\ gather_exc = NoExc
    /\ conn = NoConn
    /\ result = NoResult

\* run_fetches up to the first request: _get_data without the limit check
RunFetches ==
    /\ phase = "idle"
    /\ \E d \in DispatchDatasets, lim \in DispatchLimits :
        /\ dataset' = d
        /\ limit' = lim
        /\ entry' = "data"
        /\ StartFetch("data", NoEp)
    /\ UNCHANGED <<now, nonce, gather_exc, conn>>

\* run_fetches_for_tags up to the first request: _get_tags without the limit
\* check
RunFetchesForTags ==
    /\ phase = "idle"
    /\ \E lim \in DispatchLimits :
        /\ dataset' = "tags"
        /\ limit' = lim
        /\ entry' = "tags"
        /\ StartFetch("tags", NoEp)
    /\ UNCHANGED <<now, nonce, gather_exc, conn>>

CountedResponse(t) ==
    /\ trav[t].status = "running"
    /\ \E env \in CountedEnvelopes(Top(trav[t].stack).new_page,
                                    Len(trav[t].resp) + 1) :
        Receive(t, env)

NextDispatch ==
    \/ RunFetches
    \/ RunFetchesForTags
    \/ \E t \in TravIds : SendRequest(t)
    \/ \E t \in TravIds : CountedResponse(t)
    \/ \E t \in TravIds : Backoff(t)
    \/ JoinReturn
    \/ JoinRaise

SpecDispatch == InitDispatch /\ [][NextDispatch]_vars

\* fetch_page(dataset, [], session, limit, 0) called on its own, as _get_data
\* calls it, with a positive limit and an open session; nothing joins it.
InitPage ==
    /\ store = [k \in Keys |->
                    IF k = Name THEN Token("tokA", TRUE, 2, TRUE) ELSE NoValue]
    /\ now = 1
    /\ nonce = 1
    /\ last = Last("none", store, 0, 0, NoEp, NoOutcome(store))
    /\ phase = "running"
    /\ entry = "page"
    /\ dataset = "calls"
    /\ limit \in 1..MaxLimit
    /\ session = "open"
    /\ bearer = "tokA"
    /\ trav = [t \in TravIds |-> IF t = "variable" THEN StartTrav(0) ELSE NoTrav]
    /\ gather_exc = NoExc
    /\ conn = NoConn
    /\ result = NoResult

PageRequest == SendRequestWithin("variable", MaxPageReq)

NextPage ==
    \/ PageRequest
    \/ Response("variable")
    \/ TransportFail("variable")
    \/ Backoff("variable")

SpecPage == InitPage /\ [][NextPage]_vars

(***************************************************************************)
(* AbstractConnector in with blocks: __enter__, the body (calls of query,  *)
(* then its end or an exception of its own) and __exit__. A with statement *)
(* runs its body only when __enter__ has returned, and calls __exit__ when *)
(* the body is left, with the body's exception if it raised; __exit__      *)
(* returns None, so that exception goes on to the caller.                  *)
(***************************************************************************)
InitContext ==
    /\ store = [k \in Keys |-> NoValue]
    /\ now = 0
    /\ nonce = 0
    /\ last = Last("none", store, 0, 0, NoEp, NoOutcome(store))
    /\ phase = "idle"
    /\ entry = "none"
    /\ dataset = "none"
    /\ limit = 0
    /\ session = "none"
    /\ bearer = ""
    /\ trav = Idle
    /\ gather_exc = NoExc
    /\ result = NoResult
    /\ conn = NoConn

\* __enter__ (lines 29-36), ok telling whether connect returns: a new block
\* of the same connector starts
EnterBlock ==
    /\ conn.pc \in {"outside", "left"}
    /\ conn.uses < MaxUses
    /\ \E ok \in BOOLEAN :
        conn' = [pc |-> IF ok THEN "body" ELSE "left",
                 uses |-> conn.uses + 1,
                 connects |-> 1,
                 disconnects |-> 0,
                 queries |-> 0,
                 body_ran |-> ok,
                 connect_failed |-> ~ok,
                 body_exc |-> "none",
                 raised |-> IF ok THEN "none"
                            ELSE "UnableToConnectToDatabaseException",
                 log |-> Append(conn.log, IF ok THEN "connect" ELSE "connect_raised")]
    /\ UNCHANGED aircallVars

\* query (lines 54-59) called in the body, ok telling whether run_query
\* returns: InvalidQuery leaves the body
Query ==
    /\ conn.pc = "body"
    /\ conn.queries < MaxQueries
    /\ \E ok \in BOOLEAN :
        conn' = [conn EXCEPT
                    !.queries = @ + 1,
                    !.pc = IF ok THEN "body" ELSE "unwinding",
                    !.body_exc = IF ok THEN "none" ELSE "InvalidQuery",
                    !.log = Append(@, IF ok THEN "query" ELSE "query_raised")]
    /\ UNCHANGED aircallVars

\* the body raises an exception of its own
BodyRaises ==
    /\ conn.pc = "body"
    /\ conn' = [conn EXCEPT !.pc = "unwinding", !.body_exc = "BodyError"]
    /\ UNCHANGED aircallVars

\* an __exit__ that disconnects only when the body completed
DisconnectOnlyOnSuccess(exc) == exc = "none"

\* __exit__ calls self.disconnect() whatever exc_type is (lines 38-39)
DisconnectWanted(exc) == TRUE

\* __exit__ (lines 38-40) when the body is left, completed or by an
\* exception, ok telling whether disconnect returns
ExitBlock ==
    /\ conn.pc \in {"body", "unwinding"}
    /\ IF DisconnectWanted(conn.body_exc)
       THEN \E ok \in BOOLEAN :
              conn' = [conn EXCEPT
                          !.pc = "left",
                          !.disconnects = @ + 1,
                          !.raised = IF ok THEN conn.body_exc ELSE "DisconnectError",
                          !.log = Append(@, IF ok THEN "disconnect"
                                            ELSE "disconnect_raised")]
       ELSE conn' = [conn EXCEPT !.pc = "left", !.raised = conn.body_exc]
    /\ UNCHANGED aircallVars

NextContext ==
    \/ EnterBlock
    \/ Query
    \/ BodyRaises
    \/ ExitBlock

SpecContext == InitContext /\ [][NextContext]_vars

\* the connector after construction: nothing saved, no fetch made
InitToken ==
    /\ store = [k \in Keys |-> NoValue]
    /\ now = 0
    /\ nonce = 0
    /\ last = Last("none", store, 0, 0, NoEp, NoOutcome(store))
    /\ phase = "idle"
    /\ entry = "none"
    /\ dataset = "none"
    /\ limit = 0
    /\ session = "none"
    /\ bearer = ""
    /\ trav = Idle
    /\ gather_exc = NoExc
    /\ conn = NoConn
    /\ result = NoResult

NextToken ==
    \/ build_authorization_url /\ UNCHANGED <<fetchVars, conn>>
    \/ retrieve_tokens /\ UNCHANGED <<fetchVars, conn>>
    \/ get_access_token /\ UNCHANGED <<fetchVars, conn>>
    \/ get_status /\ UNCHANGED <<fetchVars, conn>>
    \/ Tick /\ UNCHANGED <<fetchVars, conn>>

SpecToken == InitToken /\ [][NextToken]_vars

(***************************************************************************)
(* Properties.                                                             *)
(***************************************************************************)
IsError(env) == env.error # 0

\* the successful pages traversal t has obtained
Successes(t) == {i \in 1..Len(trav[t].resp) : ~IsError(trav[t].resp[i])}

\* responses i..i+n-1 of traversal t are error envelopes and no error
\* envelope precedes them directly
ErrorRun(t, i, n) ==
    /\ i >= 1
    /\ i + n - 1 <= Len(trav[t].resp)
    /\ \A j \in i..(i + n - 1) : IsError(trav[t].resp[j])
    /\ i > 1 => ~IsError(trav[t].resp[i - 1])

\* the envelopes of data_list that answer for page p
PagesOf(t, p) == SelectSeq(trav[t].data_list, LAMBDA e : e.current_page = p)

IsToken(v) == v.kind = "token"

\* C1: with a limit N > 0 a traversal obtains at most N successful pages,
\* its pass counter never exceeds N, and nothing is requested once the N-th
\* page is there, whatever next_page_link it carries.
C1_AtMostLimitPages ==
    \A t \in TravIds :
        limit > 0 =>
            /\ Cardinality(Successes(t)) <= limit
            /\ trav[t].max_pass <= limit
            /\ Cardinality(Successes(t)) >= limit => trav[t].status # "running"

\* C2: with limit -1 a successful page with a next_page_link is followed by
\* the request of the next page, and the traversal ends at the first
\* successful page without one: nothing is requested after it.
C2_UnlimitedUntilNoLink ==
    \A t \in TravIds :
        limit = -1 =>
            /\ \A i \in Successes(t) :
                  trav[t].resp[i].meta # "link" =>
                      /\ Len(trav[t].sent) = i
                      /\ trav[t].status = "done"
            /\ LET n == Len(trav[t].resp) IN
                  (n > 0 /\ n \in Successes(t) /\ trav[t].resp[n].meta = "link"
                     /\ Len(trav[t].sent) = n) =>
                      /\ trav[t].status = "running"
                      /\ Top(trav[t].stack).pc = "fetch"
                      /\ Top(trav[t].stack).new_page = trav[t].resp[n].current_page + 1

\* C3: with limit 0, _retrieve_data returns the empty-schema template of the
\* dataset and has sent no page request, called no get_access_token (so no
\* token endpoint) and opened no session.
C3_LimitZeroNoRequest ==
    (phase # "idle" /\ limit = 0) =>
        /\ phase = "returned"
        /\ result = Df(dataset, <<>>, <<>>)
        /\ TotalSent = 0
        /\ trav = Idle
        /\ session = "none"
        /\ last.op = "none"
        /\ store = last.pre

C3_Witness == phase = "returned" /\ limit = 0 /\ dataset = "calls" /\ result.kind = "df"

\* C4: after 2 consecutive error envelopes followed by a success, fetch_page
\* has not raised, and what it returns for that page is the successful
\* page's data alone.
C4_RetriedPageData ==
    \A t \in TravIds :
        \A i \in 1..Len(trav[t].resp) :
            (ErrorRun(t, i, 2) /\ (i + 2) \in Successes(t)) =>
                /\ Len(trav[t].resp) = i + 2 => trav[t].status # "raised"
                /\ trav[t].status = "done" =>
                      PagesOf(t, trav[t].resp[i + 2].current_page)
                          = <<trav[t].resp[i + 2]>>

\* C5 as stated: after 3 consecutive error envelopes for a page no further
\* request is sent for it, and fetch_page raises once the backoff is over.
C5_ThreeErrorsRaise ==
    \A t \in TravIds :
        \A i \in 1..Len(trav[t].resp) :
            ErrorRun(t, i, 3) =>
                /\ Len(trav[t].sent) <= i + 2
                /\ \/ trav[t].status = "raised"
                   \/ trav[t].status = "running" /\ Top(trav[t].stack).pc = "sleep"

\* C5 amended: after 4 consecutive error envelopes for a page (the request
\* and its 3 retries) no further request is sent for it and fetch_page
\* raises, once the backoff is over, with the payload of the last envelope;
\* and fetch_page raises that error in no other case.
C5_FourErrorsRaise ==
    \A t \in TravIds :
        /\ \A i \in 1..Len(trav[t].resp) :
              ErrorRun(t, i, max_num_of_retries + 1) =>
                  LET n == i + max_num_of_retries IN
                  /\ Len(trav[t].resp) = n
                  /\ Len(trav[t].sent) = n
                  /\ \/ /\ trav[t].status = "raised"
                        /\ trav[t].err = Exc("Exception", trav[t].resp[n].error)
                     \/ /\ trav[t].status = "running"
                        /\ Top(trav[t].stack).pc = "sleep"
        /\ trav[t].err.kind = "Exception" =>
              ErrorRun(t, Len(trav[t].resp) - max_num_of_retries, max_num_of_retries + 1)

C5_Witness ==
    \E t \in TravIds :
        /\ trav[t].status = "raised"
        /\ trav[t].err.kind = "Exception"
        /\ Len(trav[t].sent) = max_num_of_retries + 1

\* get_access_token was the last operation, on an expired token
ExpiredCall ==
    /\ last.op = "get_access_token"
    /\ IsToken(load(last.pre, Name))
    /\ IsExpired(load(last.pre, Name), last.at)

\* C6: get_access_token on an expired token with a refresh token calls the
\* token endpoint exactly once; the token it answers with is saved under the
\* connector's key (no other key changes) and its access token is returned;
\* if the endpoint call raises, nothing is saved.
C6_RefreshOnce ==
    (ExpiredCall /\ load(last.pre, Name).has_refresh_token) =>
        /\ last.token_calls = 1
        /\ last.ep.ok =>
              /\ store = [last.pre EXCEPT ![Name] = last.ep.token]
              /\ last.err = "none"
              /\ last.ret = last.ep.token.access_token
        /\ ~last.ep.ok =>
              /\ store = last.pre
              /\ last.err = "OAuthError"

C6_Witness ==
    /\ ExpiredCall
    /\ load(last.pre, Name).has_refresh_token
    /\ last.ep.ok
    /\ last.ret = "tokB"
    /\ load(last.pre, Name).access_token = "tokA"
    /\ load(store, Name).access_token = "tokB"

\* C7: a fetch started with no token stored (nothing, or only a nonce) fails
\* with NoCredentialsError, its get_access_token having failed without a
\* call to the token endpoint, and no page request is sent.
C7_NoCredentials ==
    (last.op = "get_access_token" /\ ~IsToken(load(last.pre, Name))) =>
        /\ last.err # "none"
        /\ last.token_calls = 0
        /\ TotalSent = 0
        /\ phase = "raised"
        /\ result.err.kind = "NoCredentialsError"

\* C8: retrieve_tokens with a response whose state differs from the stored
\* nonce fails on the comparison, calls the token endpoint zero times and
\* leaves the secrets keeper as it was.
C8_StateMismatch ==
    (/\ last.op = "retrieve_tokens"
     /\ load(last.pre, Name).kind = "state"
     /\ load(last.pre, Name).state # last.arg) =>
        /\ last.err = "AssertionError"
        /\ last.token_calls = 0
        /\ store = last.pre

C8_Witness ==
    /\ last.op = "retrieve_tokens"
    /\ load(last.pre, Name) = StateValue(2)
    /\ last.arg = 1
    /\ last.err = "AssertionError"

\* C9: build_authorization_url persists a fresh nonce and leaves a valid
\* token usable: get_access_token called right after it returns the access
\* token that was stored before.
C9_BuildKeepsToken ==
    (/\ last.op = "build_authorization_url"
     /\ IsToken(load(last.pre, Name))
     /\ load(last.pre, Name).access_token # ""
     /\ ~IsExpired(load(last.pre, Name), now)) =>
        /\ last.arg = nonce
        /\ \A ep \in EndpointOutcomes(now) :
              /\ GetAccessToken(store, now, ep).err = "none"
              /\ GetAccessToken(store, now, ep).ret = load(last.pre, Name).access_token

\* C10: get_access_token on an expired token without refresh token fails
\* with NoOAuth2RefreshToken, calls the token endpoint zero times and leaves
\* the secrets keeper as it was.
C10_NoRefreshToken ==
    (ExpiredCall /\ ~load(last.pre, Name).has_refresh_token) =>
        /\ last.err = "NoOAuth2RefreshToken"
        /\ last.ret = ""
        /\ last.token_calls = 0
        /\ store = last.pre

C10_Witness ==
    /\ ExpiredCall
    /\ ~load(last.pre, Name).has_refresh_token
    /\ last.err = "NoOAuth2RefreshToken"

(***************************************************************************)
(* The concurrent collector.                                               *)
(***************************************************************************)

\* fetch_page run alone on one more body env: lines 48-93 and, on an error
\* envelope, the sleep and lines 59-67 at once. s is [stack, data_list,
\* max_pass, status].
SeqStep(s, env, lim) ==
    IF s.status # "running" THEN s
    ELSE LET f == [Top(s.stack) EXCEPT !.data = env] IN
         IF env.error # 0
         THEN IF CanRetry(f)
              THEN [s EXCEPT !.stack = Append(
                        Append(Pop(s.stack),
                               [f EXCEPT !.delay_counter = f.delay_counter + 1,
                                         !.pc = "retry"]),
                        RetryFrame(f))]
              ELSE [s EXCEPT !.stack = <<>>, !.status = "raised"]
         ELSE LET r == AfterFetch([stack |-> Append(Pop(s.stack), f),
                                   data_list |-> s.data_list,
                                   max_pass |-> s.max_pass], lim)
              IN [stack |-> r.stack, data_list |-> r.data_list,
                  max_pass |-> r.max_pass,
                  status |-> IF r.stack = <<>> THEN "done" ELSE "running"]

\* fetch_page run alone, from state s, on the bodies resps in their order
RECURSIVE SeqRun(_, _, _)
SeqRun(resps, s, lim) ==
    IF resps = <<>> THEN s
    ELSE SeqRun(Tail(resps), SeqStep(s, Head(resps), lim), lim)

\* the traversal of t run alone on the bodies t has received
Alone(t) ==
    SeqRun(trav[t].resp,
           [stack |-> <<Frame(FirstPass(entry), 1, 0)>>, data_list |-> <<>>,
            max_pass |-> FirstPass(entry), status |-> "running"],
           limit)

\* C11: in every interleaving of the two traversals of _get_data, the pages
\* accumulated for a dataset (and its pass count, and whether it has
\* finished) are those of its traversal run alone on the same bodies, and
\* what the collector hands on is built from these two lists.
C11_InterleavingInvariant ==
    entry = "data" =>
        /\ \A t \in TravIds :
            /\ trav[t].data_list = Alone(t).data_list
            /\ trav[t].max_pass = Alone(t).max_pass
            /\ (trav[t].status = "done") = (Alone(t).status = "done")
        /\ (phase # "running" /\ \A t \in TravIds : trav[t].status = "done") =>
                result = DataResult(dataset, Alone("teams").data_list,
                                    Alone("variable").data_list)

\* both traversals have finished with two pages each and the frame is built
C11_Witness ==
    /\ entry = "data"
    /\ phase = "returned"
    /\ \A t \in TravIds : trav[t].status = "done" /\ Len(trav[t].data_list) = 2
    /\ trav["teams"].resp # trav["variable"].resp

\* the traversals the collector has started
Started == {t \in TravIds : trav[t].status # "unused"}

\* the collector of _get_data is over: the gather has returned or raised
Joined == entry = "data" /\ phase \in {"returned", "raised"} /\ session = "closed"

\* C12: when the collector of _get_data returns or raises, both traversals
\* have completed (each returned its list or raised); and if one of them
\* raised, the collector raises one of the traversals' exceptions and returns
\* no frame.
C12_WaitsForBoth ==
    Joined =>
        /\ \A t \in TravIds : trav[t].status \in {"done", "raised"}
        /\ \A t \in TravIds :
            trav[t].status = "raised" =>
                /\ phase = "raised"
                /\ result.kind = "error"
                /\ \E u \in TravIds : trav[u].status = "raised" /\ result.err = trav[u].err

\* a page request of traversal t has been sent and has not come back
InFlight(t) == trav[t].status = "running" /\ Top(trav[t].stack).pc = "wait"

\* C13: the session of a batch is open from before the batch's first request,
\* is closed on every exit path of the batch, is never closed while a page
\* request of the batch is in flight, and is closed only after every
\* traversal of the batch has completed.
C13_SessionScope ==
    /\ TotalSent > 0 => session # "none"
    /\ \A t \in TravIds : InFlight(t) => session = "open"
    /\ (phase \in {"returned", "raised"} /\ Started # {}) => session = "closed"
    /\ session = "closed" => \A t \in Started : trav[t].status \in {"done", "raised"}

\* C14: a fetch for a dataset that has no registered formatter never returns
\* a result: whatever its pages hold, zero records included, it ends in an
\* error.
C14_UnregisteredFails ==
    (phase \in {"returned", "raised"} /\ dataset \notin RegisteredFormatters) =>
        /\ phase = "raised"
        /\ result.kind = "error"

(***************************************************************************)
(* Errors of a fetch.                                                      *)
(***************************************************************************)

\* The fatal errors met by the fetch so far: that of get_access_token or
\* of the token test, those raised by the traversals, and the KeyError of
\* formatting a finished list that holds an envelope without its array.
Fatal ==
    (IF last.op = "get_access_token" /\ last.err # "none"
     THEN {Exc(last.err, 0)} ELSE {})
    \cup
    (IF last.op = "get_access_token" /\ last.err = "none" /\ last.ret = ""
     THEN {Exc("NoCredentialsError", 0)} ELSE {})
    \cup
    {trav[t].err : t \in {u \in TravIds : trav[u].status = "raised"}}
    \cup
    (IF /\ Started # {}
        /\ \A t \in Started : trav[t].status = "done"
        /\ \E t \in Started : HasKeyError(trav[t].data_list)
     THEN {Exc("KeyError", 0)} ELSE {})

\* C15: when a fetch with limit # 0 has met a fatal error and _retrieve_data
\* is over, it has raised one of these errors and has no frame; when it
\* returns a frame, no fatal error was met, every traversal has finished and
\* the frame holds all their pages.
C15_FatalErrorRaised ==
    (limit # 0 /\ phase \in {"returned", "raised"}) =>
        /\ Fatal # {} =>
              (phase = "raised" /\ result.kind = "error" /\ result.err \in Fatal)
        /\ phase = "raised" => (result.kind = "error" /\ Fatal # {})
        /\ phase = "returned" =>
              /\ Fatal = {}
              /\ Started # {}
              /\ \A t \in Started : trav[t].status = "done"
              /\ result.kind = "df"
              /\ result.template = dataset
              /\ result.rows = Rows(trav["variable"].data_list)
              /\ entry = "data" => result.teams = Rows(trav["teams"].data_list)

\* one traversal has its pages, the other has raised, and so has _retrieve_data
C15_Witness ==
    /\ limit # 0
    /\ phase = "raised"
    /\ trav["variable"].status = "done"
    /\ trav["variable"].data_list # <<>>
    /\ ~HasKeyError(trav["variable"].data_list)
    /\ trav["teams"].status = "raised"
    /\ result = Failure(trav["teams"].err)

(***************************************************************************)
(* Retries and the order of the requests of one traversal.                 *)
(***************************************************************************)

\* the number of error envelopes at the end of resps
RECURSIVE TrailingErrors(_)
TrailingErrors(resps) ==
    IF resps = <<>> THEN 0
    ELSE IF ~IsError(resps[Len(resps)]) THEN 0
    ELSE 1 + TrailingErrors(SubSeq(resps, 1, Len(resps) - 1))

\* C16: in a running traversal every call's delay_counter is within
\* 0..max_num_of_retries, and that of the page being fetched is the number of
\* error envelopes received for it since the last page without error (one
\* less while the sleep that precedes the increment lasts); so it is 0 when
\* the first request of a next page goes out.
C16_RetryCounter ==
    \A t \in TravIds :
        trav[t].status = "running" =>
            /\ \A i \in 1..Len(trav[t].stack) :
                    trav[t].stack[i].delay_counter \in 0..max_num_of_retries
            /\ LET f == Top(trav[t].stack) IN
                f.delay_counter = IF f.pc = "sleep"
                                  THEN TrailingErrors(trav[t].resp) - 1
                                  ELSE TrailingErrors(trav[t].resp)

\* page 1 needed two retries, and the request of page 2 is out with the
\* counter at 0
C16_Witness ==
    \E t \in TravIds :
        /\ trav[t].status = "running"
        /\ Len(trav[t].resp) = 3
        /\ IsError(trav[t].resp[1]) /\ IsError(trav[t].resp[2])
        /\ Top(trav[t].stack).pc = "wait"
        /\ Top(trav[t].stack).new_page = 2
        /\ Top(trav[t].stack).delay_counter = 0

\* the number of error envelopes among resps
NumErrors(resps) == Cardinality({i \in 1..Len(resps) : IsError(resps[i])})

\* C17: the request that follows an error envelope in a traversal is for the
\* same page with the same pass count (dataset and limit are those of the
\* batch), and exactly one sleep has been made for each error envelope before
\* its retry goes out.
C17_RetrySamePage ==
    \A t \in TravIds :
        /\ \A k \in 1..Len(trav[t].resp) :
              (IsError(trav[t].resp[k]) /\ Len(trav[t].sent) > k) =>
                  /\ trav[t].sent[k + 1].page = trav[t].sent[k].page
                  /\ trav[t].sent[k + 1].pass = trav[t].sent[k].pass
        /\ trav[t].status = "running" =>
              trav[t].slept = IF Top(trav[t].stack).pc = "sleep"
                              THEN NumErrors(trav[t].resp) - 1
                              ELSE NumErrors(trav[t].resp)

\* page 2 got an error envelope and its retry is out, after one sleep
C17_Witness ==
    \E t \in TravIds :
        /\ Len(trav[t].resp) = 2
        /\ ~IsError(trav[t].resp[1]) /\ IsError(trav[t].resp[2])
        /\ Len(trav[t].sent) = 3
        /\ trav[t].sent[3].page = 2
        /\ trav[t].slept = 1

\* whether envelope e is in the accumulator of t
Appended(t, e) == \E i \in 1..Len(trav[t].data_list) : trav[t].data_list[i] = e

\* C18: a traversal has at most one request without its response; a request
\* that follows a page received without error is sent with that page in the
\* accumulator, and asks for that page's meta.current_page + 1.
C18_OneRequestThenNext ==
    \A t \in TravIds :
        /\ Len(trav[t].sent) - Len(trav[t].resp) \in {0, 1}
        /\ \A k \in 1..Len(trav[t].resp) :
              (~IsError(trav[t].resp[k]) /\ Len(trav[t].sent) > k) =>
                  /\ Appended(t, trav[t].resp[k])
                  /\ trav[t].sent[k + 1].page = trav[t].resp[k].current_page + 1

(***************************************************************************)
(* The token of a batch.                                                   *)
(***************************************************************************)

\* the requests sent by the batch so far
Requests ==
    UNION {{trav[t].sent[i] : i \in 1..Len(trav[t].sent)} : t \in TravIds}

\* C19: get_access_token is called in the step that starts the batch and in
\* no other (so once, and before the first request); every request of the
\* batch, retries included, carries the token that call returned; and the
\* keeper's content is what that call left, no traversal step writes it.
C19_OneTokenPerBatch ==
    /\ [](Requests # {} =>
            /\ last.op = "get_access_token"
            /\ last.err = "none"
            /\ \A r \in Requests : r.bearer = last.ret
            /\ store = GetAccessToken(last.pre, last.at, last.ep).store)
    /\ [][(last' # last \/ store' # store) => (phase = "idle" /\ Requests = {})]_vars

\* the call refreshed the token, and both traversals have sent requests, one
\* of them a retry
C19_Witness ==
    /\ last.op = "get_access_token"
    /\ last.ret = "tokB"
    /\ store # last.pre
    /\ Len(trav["teams"].sent) >= 1
    /\ Len(trav["variable"].sent) = 2
    /\ IsError(trav["variable"].resp[1])

\* C20: while the collector of _get_data runs, a step that changes one
\* traversal leaves the other as it was: its accumulator, its calls with
\* their pass and retry counters, and what it has sent and received.
C20_NoSharedState ==
    [][(phase = "running" /\ entry = "data") =>
          \A t \in TravIds, u \in TravIds :
              (t # u /\ trav'[t] # trav[t]) => trav'[u] = trav[u]]_vars

\* one traversal is at its second retry while the other, untouched by these
\* errors, has a page and asks for the next with its counter at 0
C20_Witness ==
    \E t \in TravIds, u \in TravIds :
        /\ t # u /\ entry = "data" /\ phase = "running"
        /\ trav[t].status = "running" /\ trav[u].status = "running"
        /\ Top(trav[t].stack).delay_counter = 2
        /\ Top(trav[u].stack).delay_counter = 0
        /\ Len(trav[u].data_list) = 1
        /\ Top(trav[u].stack).pc = "wait"

(***************************************************************************)
(* The connector's OAuth2 operations, call after call.                     *)
(***************************************************************************)

\* this step is a call of operation op (a call that changes nothing at all
\* is no step)
Calls(op) == last' # last /\ last'.op = op

\* C21: a retrieve_tokens that finds a token under the connector's key (an
\* exchange has succeeded and no build_authorization_url came after) fails
\* without calling the token endpoint and leaves the keeper as it was; and a
\* retrieve_tokens made right after a successful one, whatever the state in
\* its response, does not succeed.
C21_NonceConsumedOnce ==
    /\ []((last.op = "retrieve_tokens" /\ IsToken(load(last.pre, Name))) =>
            /\ last.err # "none"
            /\ last.token_calls = 0
            /\ store = last.pre)
    /\ [][(last.op = "retrieve_tokens" /\ last.err = "none"
              /\ Calls("retrieve_tokens")) =>
            /\ last'.err # "none"
            /\ last'.token_calls = 0
            /\ store' = store]_vars

\* the second exchange carried the state that the first had consumed
C21_Witness ==
    /\ last.op = "retrieve_tokens"
    /\ IsToken(load(last.pre, Name))
    /\ load(last.pre, Name).access_token = "tokA"
    /\ last.arg = nonce
    /\ last.err = "KeyError"

(***************************************************************************)
(* Failures that are not retried.                                          *)
(***************************************************************************)

\* C22: a request that got no body is the last request of its traversal,
\* and a traversal whose request raised has raised that failure; once the
\* fetch is over it has raised, with that failure or with the failure of
\* the other traversal of the collector that came first, and has no frame.
C22_TransportNotRetried ==
    \A t \in TravIds :
        /\ Len(trav[t].sent) - Len(trav[t].resp) \in {0, 1}
        /\ (Len(trav[t].sent) > Len(trav[t].resp) /\ ~InFlight(t)) =>
              /\ trav[t].status = "raised"
              /\ trav[t].err = Exc("TransportError", 0)
              /\ phase # "running" =>
                    /\ phase = "raised"
                    /\ result.kind = "error"
                    /\ result.err \in {trav[u].err : u \in Started}

\* the request of page 2 raised after page 1 had come, and the tags fetch
\* has raised the transport failure
C22_Witness ==
    /\ entry = "tags"
    /\ phase = "raised"
    /\ Len(trav["variable"].sent) = 2
    /\ Len(trav["variable"].resp) = 1
    /\ trav["variable"].data_list # <<>>
    /\ result = Failure(Exc("TransportError", 0))

\* a body without error field and without the array of its dataset
Malformed(env) == ~IsError(env) /\ ~env.records

\* C23: a fetch that received a page without error field and without its
\* array fails, once it is over, with an error and no result; and the page
\* of such a body is not requested again by its traversal.
C23_MalformedFatal ==
    \A t \in TravIds :
        \A k \in 1..Len(trav[t].resp) :
            Malformed(trav[t].resp[k]) =>
                /\ phase \in {"returned", "raised"} =>
                      (phase = "raised" /\ result.kind = "error")
                /\ \A j \in (k + 1)..Len(trav[t].sent) :
                      trav[t].sent[j].page # trav[t].sent[k].page

\* get_access_token was the last operation and found, under the connector's
\* key, a token with an expires_at earlier than the time of the call
StaleCall ==
    /\ last.op = "get_access_token"
    /\ IsToken(load(last.pre, Name))
    /\ load(last.pre, Name).has_expires_at
    /\ load(last.pre, Name).expires_at < last.at

\* C24: a get_access_token that found a token whose expires_at is earlier
\* than the time of the call either failed or called the token endpoint and
\* returned the access token of the token the endpoint answered with, which
\* is the token the keeper now holds.
C24_ExpiryChecked ==
    StaleCall =>
        \/ last.err # "none"
        \/ /\ last.token_calls = 1
           /\ last.ep.ok
           /\ last.ret = last.ep.token.access_token
           /\ load(store, Name) = last.ep.token

\* the token had expired one tick before the call, and the call returned
\* the access token of the new one
C24_Witness ==
    /\ StaleCall
    /\ load(last.pre, Name).expires_at + 1 = last.at
    /\ load(last.pre, Name).access_token = "tokB"
    /\ last.err = "none"
    /\ last.ret = "tokA"

\* get_access_token was the last operation and found, under the connector's
\* key, a token without expires_at or with one not earlier than the time of
\* the call
FreshCall ==
    /\ last.op = "get_access_token"
    /\ IsToken(load(last.pre, Name))
    /\ (load(last.pre, Name).has_expires_at =>
            load(last.pre, Name).expires_at >= last.at)

\* C28: a get_access_token that found a token that is not expired made no
\* call to the token endpoint, left the whole keeper as it was, did not fail
\* and returned the access token of that token.
C28_FreshTokenUntouched ==
    FreshCall =>
        /\ last.token_calls = 0
        /\ store = last.pre
        /\ last.err = "none"
        /\ last.ret = load(last.pre, Name).access_token

\* the stored token expires later than the call, which returned its
\* access token
C28_Witness ==
    /\ FreshCall
    /\ load(last.pre, Name).has_expires_at
    /\ load(last.pre, Name).expires_at > last.at
    /\ load(last.pre, Name).has_refresh_token
    /\ last.ret = "tokA"

(***************************************************************************)
(* What a traversal returns, and how many requests it takes.               *)
(***************************************************************************)

\* the bodies without error field among resps, in their order
Fetched(resps) == SelectSeq(resps, LAMBDA e : ~IsError(e))

\* C25: the list a traversal returns is the bodies it received without
\* error field, in the order received and with ascending page numbers (so
\* each page once); it holds no error envelope.
C25_AccumulatorExact ==
    \A t \in TravIds :
        trav[t].status = "done" =>
            /\ trav[t].data_list = Fetched(trav[t].resp)
            /\ \A i \in 1..Len(trav[t].data_list), j \in 1..Len(trav[t].data_list) :
                  i < j => trav[t].data_list[i].current_page
                              < trav[t].data_list[j].current_page

\* C26: with a limit N > 0 and a server that answers every request with a
\* page that has a next_page_link, a finished traversal has fetched exactly N
\* pages, whether _get_tags or _get_data started it.
C26_SamePagesBothEntries ==
    \A t \in TravIds :
        (/\ limit > 0
         /\ trav[t].status = "done"
         /\ \A i \in 1..Len(trav[t].resp) :
               ~IsError(trav[t].resp[i]) /\ trav[t].resp[i].meta = "link") =>
            /\ Len(trav[t].resp) = limit
            /\ Len(trav[t].data_list) = limit

\* C27: with a limit N > 0 a traversal sends at most 4 * N page requests
\* (N pages, each requested once and retried at most max_num_of_retries
\* times), whatever the server answers.
C27_RequestBudget ==
    \A t \in TravIds :
        limit > 0 => Len(trav[t].sent) <= (max_num_of_retries + 1) * limit

\* C29: after a get_access_token that succeeded (having refreshed the token
\* or not), a further get_access_token made while the token now stored is
\* not expired returns the same access token, makes no call to the token
\* endpoint and leaves the keeper as it is; so any number of calls made
\* after a refresh and before the new expiry refresh nothing.
C29_RefreshIdempotent ==
    [][(/\ last.op = "get_access_token"
        /\ last.err = "none"
        /\ Calls("get_access_token")
        /\ load(store, Name).has_expires_at => load(store, Name).expires_at >= now) =>
            /\ last'.err = "none"
            /\ last'.ret = last.ret
            /\ last'.token_calls = 0
            /\ store' = store]_vars

\* a get_access_token found a token issued at the very time of the call (by
\* the refresh of a call before it, or by an exchange) and returned its
\* access token without a call to the token endpoint
C29_Witness ==
    /\ last.op = "get_access_token"
    /\ last.err = "none"
    /\ last.token_calls = 0
    /\ last.ret = "tokB"
    /\ last.at = MaxTime
    /\ load(store, Name).has_expires_at
    /\ load(store, Name).expires_at = last.at + TokenLifetime
    /\ store = last.pre

\* what get_access_token did inside the last operation
Inner == GetAccessToken(last.pre, last.at, last.ep)

\* C30: get_status does not raise; it returns status False with the error
\* 'Credentials are missing' when its get_access_token raised or returned an
\* empty token, and status True otherwise; no session is opened and no page
\* request is sent.
C30_StatusNeverRaises ==
    last.op = "get_status" =>
        /\ last.err = "none"
        /\ last.ret = IF Inner.err # "none" \/ Inner.ret = ""
                      THEN "Credentials are missing"
                      ELSE "status=True"
        /\ session = "none"
        /\ TotalSent = 0

\* get_status on an expired token without refresh token: the
\* NoOAuth2RefreshToken of get_access_token became a status False
C30_Witness ==
    /\ last.op = "get_status"
    /\ Inner.err = "NoOAuth2RefreshToken"
    /\ last.err = "none"
    /\ last.ret = "Credentials are missing"

(***************************************************************************)
(* AbstractConnector as a context manager.                                 *)
(***************************************************************************)

\* how many times event e is in the log
Count(e) == Cardinality({i \in 1..Len(conn.log) : conn.log[i] = e})

\* C31: in a with block connect has been called exactly once; when connect
\* raised, the block has ended with UnableToConnectToDatabaseException, its
\* body did not run and disconnect was not called; when connect returned,
\* disconnect is not called while the body runs and has been called exactly
\* once when the block is left, whether the body completed or raised. Over
\* all its blocks the connector was disconnected as often as it connected.
C31_ContextManager ==
    /\ conn.pc # "outside" => conn.connects = 1
    /\ conn.connect_failed =>
          /\ conn.pc = "left"
          /\ conn.raised = "UnableToConnectToDatabaseException"
          /\ ~conn.body_ran
          /\ conn.queries = 0
          /\ conn.disconnects = 0
    /\ conn.pc \in {"body", "unwinding"} =>
          (~conn.connect_failed /\ conn.body_ran /\ conn.disconnects = 0)
    /\ (conn.pc = "left" /\ ~conn.connect_failed) => conn.disconnects = 1
    /\ Count("connect") + Count("connect_raised") = conn.uses
    /\ conn.pc \in {"outside", "left"} =>
          Count("disconnect") + Count("disconnect_raised") = Count("connect")

\* the first block ended at connect; in the second a query raised
\* InvalidQuery, disconnect was called once and the exception went on
C31_Witness ==
    /\ conn.uses = 2
    /\ conn.pc = "left"
    /\ conn.log = <<"connect_raised", "connect", "query", "query_raised", "disconnect">>
    /\ conn.disconnects = 1
    /\ conn.raised = "InvalidQuery"

====
